---------------------------- MODULE Spec2Model ----------------------------
(***************************************************************************)
(* A model of the mcfly pipeline core: JournalRegistry, KeywordScanner,    *)
(* CodeFileIdentifier, identifyCandidates and downloadBundles.             *)
(*                                                                         *)
(* Strings are sequences of one-character strings, so that toLowerCase,    *)
(* template concatenation and String.prototype.includes are computed and   *)
(* not assumed.  Arrays handed to the KeywordScanner live in a heap        *)
(* (arrays), because the scanner stores the reference it is given.         *)
(* Promises are records with a state (pending, fulfilled, rejected).       *)
(***************************************************************************)
EXTENDS Integers, Sequences, FiniteSets, TLC

VARIABLES
    scenario,      \* which component the behaviour exercises
    arrays,        \* heap of the caller's string arrays: reference -> contents
    keywords,      \* KeywordScanner.keywords: a reference into arrays
    supplied,      \* what the constructor or the last setKeywords/setExtensions was given
    extensions,    \* CodeFileIdentifier.extensions: the Set
    bundle,        \* the caller's bundle, as it is after identifyCodeFiles
    seedInitial,   \* the list a seeded JournalRegistry was constructed with
    seeded,        \* the journals Map of that seeded JournalRegistry
    seedDone,      \* how many elements of seedInitial were registered one by one
    journals,      \* JournalRegistry.journals: the Map, as its entries' values in insertion order
    lastCall,      \* the most recent synchronous operation and its arguments
    lastReturn,    \* what that operation returned
    icStatus,      \* state of the promise identifyCandidates returned
    icJournals,    \* const journals = registry.list() of the call in flight
    icPage,        \* options.page of the call in flight (<<>> when omitted)
    fetchPromises, \* the promise of each fetchArticles invocation, by index
    icValues,      \* Promise.all's values array: the callbacks' records, by index
    icReturn,      \* the result list or the error identifyCandidates settled with
    fetchCalls,    \* every fetchArticles invocation, in the order issued
    icReconfigured, \* history: was setKeywords called while the call was pending?
    dbStatus,      \* state of the promise downloadBundles returned
    dbCandidates,  \* options.candidates of the call in flight
    dbMaxBundles,  \* options.maxBundles of the call in flight (<<>> when omitted)
    dbFn,          \* options.downloadBundle of the call in flight
    dbBatch,       \* const batch of the call in flight
    dlPromises,    \* the promise of each downloadBundle invocation, by index
    dbValues,      \* Promise.all's values array: the bundles, by index
    dbReturn,      \* the bundle list or the error downloadBundles settled with
    downloadCalls  \* every downloadBundle invocation, in the order issued

scannerVars == <<arrays, keywords, supplied>>
registryVars == <<journals>>
codeVars == <<extensions, bundle>>
seedVars == <<seedInitial, seeded, seedDone>>
observeVars == <<lastCall, lastReturn>>
icVars == <<icStatus, icJournals, icPage, fetchPromises, icValues, icReturn, fetchCalls,
           icReconfigured>>
dbVars == <<dbStatus, dbCandidates, dbMaxBundles, dbFn, dbBatch, dlPromises, dbValues,
           dbReturn, downloadCalls>>
vars == <<scenario, scannerVars, registryVars, codeVars, seedVars, observeVars, icVars, dbVars>>

-----------------------------------------------------------------------------
(* Bounds of the model *)

MaxKeywords == 2     \* longest keyword list
MaxArticles == 3     \* longest article list given to filterCandidates

-----------------------------------------------------------------------------
(* Strings *)

\* String.prototype.toLowerCase on one character of the model's alphabet
LowerChar(c) ==
    CASE c = "C" -> "c"
      [] c = "O" -> "o"
      [] c = "D" -> "d"
      [] c = "E" -> "e"
      [] c = "B" -> "b"
      [] c = "R" -> "r"
      [] OTHER -> c

\* String.prototype.toLowerCase
toLowerCase(s) == [i \in 1..Len(s) |-> LowerChar(s[i])]

\* Does needle occur in hay at 0-based position i?
OccursAt(hay, needle, i) ==
    /\ i + Len(needle) <= Len(hay)
    /\ \A k \in 1..Len(needle) : hay[i + k] = needle[k]

\* the left-to-right search of String.prototype.includes, from position i
RECURSIVE SearchFrom(_, _, _)
SearchFrom(hay, needle, i) ==
    IF i + Len(needle) > Len(hay) THEN FALSE
    ELSE IF OccursAt(hay, needle, i) THEN TRUE
    ELSE SearchFrom(hay, needle, i + 1)

\* String.prototype.includes
includes(hay, needle) == SearchFrom(hay, needle, 0)

\* the texts an article field takes in the model
tEmpty == << >>
tCodeBase == <<"C", "o", "d", "e", "B", "a", "s", "e">>
tData == <<"d", "a", "t", "a">>
Texts == {tEmpty, tCodeBase, tData}

\* the keywords a keyword list holds in the model
kCODE == <<"C", "O", "D", "E">>
kEmpty == << >>
kSpan == <<"e", " ", "d">>
KeywordSet == {kCODE, kEmpty, kSpan}

-----------------------------------------------------------------------------
(* types.ts *)

Article(id, title, abstract, fullText) ==
    [id |-> id, title |-> title, abstract |-> abstract, fullText |-> fullText,
     supplementaryUrl |-> <<"supp", id>>]

\* every sequence over S of length at most n
SeqsUpTo(S, n) == UNION {[1..k -> S] : k \in 0..n}

\* the value of a missing option, of Map.get on a missing key, of a void return
undefined == [undefined |-> TRUE]

-----------------------------------------------------------------------------
(* The caller of the synchronous operations: it issues one operation, reads *)
(* what it returned, and goes on to the next.                               *)

NoCall == [op |-> "none", arg |-> << >>]

\* the caller issues operation op with argument arg, which returns ret
Observe(op, arg, ret) ==
    /\ lastCall = NoCall
    /\ lastCall' = [op |-> op, arg |-> arg]
    /\ lastReturn' = ret

-----------------------------------------------------------------------------
(* keyword-scanner.ts *)

ArrayRefs == {"r1", "r2"}
KeywordLists == SeqsUpTo(KeywordSet, MaxKeywords)

\* the contents the array at ref takes: the second array holds one keyword at most
KeywordListsAt(ref) == IF ref = "r1" THEN KeywordLists ELSE SeqsUpTo(KeywordSet, 1)

\* `${article.title} ${article.abstract} ${article.fullText}`
Template(article) ==
    article.title \o <<" ">> \o article.abstract \o <<" ">> \o article.fullText

\* this.keywords.some((kw) => haystack.includes(kw.toLowerCase())), from index i
RECURSIVE SomeIncludes(_, _, _)
SomeIncludes(kws, haystack, i) ==
    IF i > Len(kws) THEN FALSE
    ELSE IF includes(haystack, toLowerCase(kws[i])) THEN TRUE
    ELSE SomeIncludes(kws, haystack, i + 1)

\* isCandidate with the keyword not lower-cased: haystack.includes(kw)
isCandidateKeywordAsIs(kws, article) ==
    /\ Len(kws) # 0
    /\ \E i \in 1..Len(kws) : includes(toLowerCase(Template(article)), kws[i])

\* KeywordScanner.isCandidate, with kws the contents of this.keywords
isCandidate(kws, article) ==
    IF Len(kws) = 0 THEN FALSE
    ELSE LET haystack == toLowerCase(Template(article))
         IN  SomeIncludes(kws, haystack, 1)

\* articles.filter((a) => this.isCandidate(a)), from index i
RECURSIVE FilterFrom(_, _, _)
FilterFrom(kws, articles, i) ==
    IF i > Len(articles) THEN << >>
    ELSE IF isCandidate(kws, articles[i])
         THEN <<articles[i]>> \o FilterFrom(kws, articles, i + 1)
         ELSE FilterFrom(kws, articles, i + 1)

\* filterCandidates that stops at the first article that is no candidate
RECURSIVE filterCandidatesPrefix(_, _)
filterCandidatesPrefix(kws, articles) ==
    IF articles = << >> \/ ~isCandidate(kws, Head(articles)) THEN << >>
    ELSE <<Head(articles)>> \o filterCandidatesPrefix(kws, Tail(articles))

\* KeywordScanner.filterCandidates, with kws the contents of this.keywords
filterCandidates(kws, articles) == FilterFrom(kws, articles, 1)

\* the articles given to isCandidate
ScanArticles == {Article("art-1", t, a, f) : t \in Texts, a \in Texts, f \in Texts}

\* the articles that make up the lists given to filterCandidates
aMatch == Article("art-match", tCodeBase, tEmpty, tEmpty)
aSpan == Article("art-span", tEmpty, tCodeBase, tData)
aNone == Article("art-none", tData, tEmpty, tData)
FilterArticles == {aMatch, aSpan, aNone}
ArticleLists == SeqsUpTo(FilterArticles, MaxArticles)

\* new KeywordScanner(keywords): this.keywords = keywords, a reference
InitScanner ==
    /\ arrays \in {heap \in [ArrayRefs -> KeywordLists] :
                     \A ref \in ArrayRefs : heap[ref] \in KeywordListsAt(ref)}
    /\ keywords \in ArrayRefs
    /\ supplied = keywords

\* a setKeywords that leaves this.keywords as it is
setKeywordsIgnored(ref) ==
    /\ keywords' = keywords
    /\ arrays' = arrays
    /\ supplied' = ref

\* KeywordScanner.setKeywords(keywords): this.keywords = keywords, a reference
setKeywords(ref) ==
    /\ keywords' = ref
    /\ arrays' = arrays
    /\ supplied' = ref

\* the caller changes an array it owns (push, pop, assignment to an index)
CallerWritesArray(ref, contents) ==
    /\ arrays' = [arrays EXCEPT ![ref] = contents]
    /\ keywords' = keywords
    /\ supplied' = supplied

-----------------------------------------------------------------------------
(* registry.ts *)

JournalIds == {"nature", "science", "cell"}

\* two journal values for each id, which differ in displayName and endpoints
Journal(id, version) ==
    [id |-> id,
     displayName |-> <<id, version>>,
     endpoints |-> IF version = 1 THEN << >>
                   ELSE <<[name |-> "articles", url |-> <<"https://api", id>>]>>]
JournalsOf(ids) == {Journal(id, v) : id \in ids, v \in {1, 2}}
Journals == JournalsOf(JournalIds)

\* Map.prototype.has on the entries m
MapHas(m, id) == \E i \in 1..Len(m) : m[i].id = id

\* the position of key id among the entries m
MapIndex(m, id) == CHOOSE i \in 1..Len(m) : m[i].id = id

\* Map.prototype.set that leaves the value of an existing key as it is
MapSetKeepsOld(m, journal) ==
    IF MapHas(m, journal.id) THEN m ELSE Append(m, journal)

\* Map.prototype.set that moves an existing key to the end, as delete and set would
MapSetMovesToEnd(m, journal) ==
    Append(SelectSeq(m, LAMBDA j : j.id # journal.id), journal)

\* a set that adds an entry whether or not the key is present
MapSetAppends(m, journal) == Append(m, journal)

\* Map.prototype.set(journal.id, journal): an existing key keeps its position
MapSet(m, journal) ==
    IF MapHas(m, journal.id)
    THEN [m EXCEPT ![MapIndex(m, journal.id)] = journal]
    ELSE Append(m, journal)

\* a delete that fills the place of the deleted entry with the last entry
MapDeleteSwapsLast(m, id) ==
    IF MapHas(m, id)
    THEN LET k == MapIndex(m, id)
         IN  IF k = Len(m) THEN SubSeq(m, 1, Len(m) - 1)
             ELSE SubSeq([m EXCEPT ![k] = m[Len(m)]], 1, Len(m) - 1)
    ELSE m

\* the entries left by Map.prototype.delete(id)
MapDelete(m, id) ==
    IF MapHas(m, id)
    THEN LET k == MapIndex(m, id)
         IN  SubSeq(m, 1, k - 1) \o SubSeq(m, k + 1, Len(m))
    ELSE m

\* Map.prototype.get(id)
MapGet(m, id) == IF MapHas(m, id) THEN m[MapIndex(m, id)] ELSE undefined

\* a Map constructor that keeps every element of initial as an entry of its own
MapFromKeepsAll(m, initial, i) == m \o SubSeq(initial, i, Len(initial))

\* new Map(initial.map((j) => [j.id, j])): the entries are set one by one
RECURSIVE MapFrom(_, _, _)
MapFrom(m, initial, i) ==
    IF i > Len(initial) THEN m
    ELSE MapFrom(MapSet(m, initial[i]), initial, i + 1)

\* new JournalRegistry(initial)
InitRegistry(initial) == journals = MapFrom(<< >>, initial, 1)

\* no seeded JournalRegistry is in use
InitSeedIdle ==
    /\ seedInitial = << >>
    /\ seeded = << >>
    /\ seedDone = 0

\* JournalRegistry.register(journal)
register(journal) == journals' = MapSet(journals, journal)

\* JournalRegistry.remove(id): the state change
remove(id) == journals' = MapDelete(journals, id)

\* JournalRegistry.remove(id): the value returned by Map.prototype.delete
removeResult(m, id) == MapHas(m, id)

\* JournalRegistry.get(id)
get(m, id) == MapGet(m, id)

\* JournalRegistry.list(): Array.from(this.journals.values()), a new array
list(m) == m

\* a hasAny that is true of every registry
hasAnyAlways(m) == TRUE

\* JournalRegistry.hasAny(): this.journals.size > 0
hasAny(m) == Len(m) > 0

-----------------------------------------------------------------------------
(* code-file-identifier.ts *)

MaxExtensions == 2   \* longest extension list given
MaxNameLen == 3      \* longest filename given to isCodeFile
MaxFiles == 3        \* most files in a bundle

DEFAULT_CODE_EXTENSIONS ==
    <<<<".", "p", "y">>,
      <<".", "r">>,
      <<".", "r", "m", "d">>,
      <<".", "m">>,
      <<".", "j", "l">>,
      <<".", "j", "s">>,
      <<".", "t", "s">>,
      <<".", "j", "a", "v", "a">>,
      <<".", "c">>,
      <<".", "c", "p", "p">>,
      <<".", "c", "s">>,
      <<".", "g", "o">>,
      <<".", "r", "b">>,
      <<".", "s", "h">>,
      <<".", "p", "l">>,
      <<".", "s", "c", "a", "l", "a">>,
      <<".", "k", "t">>,
      <<".", "r", "s">>,
      <<".", "s", "w", "i", "f", "t">>,
      <<".", "f", "9", "0">>,
      <<".", "f", "9", "5">>,
      <<".", "l", "u", "a">>,
      <<".", "s", "q", "l">>,
      <<".", "i", "p", "y", "n", "b">>>>

\* the entries an extension list holds in the model: .r, .R, r and .
ExtSet == {<<".", "r">>, <<".", "R">>, <<"r">>, <<".">>}
ExtensionLists == SeqsUpTo(ExtSet, MaxExtensions)

\* the extensions argument: omitted, or a list
ExtensionOptions == {<< >>} \cup {<<given>> : given \in ExtensionLists}

\* the filenames given to isCodeFile
FileNames == SeqsUpTo({".", "r", "R"}, MaxNameLen)

\* the test helper makeFile(name)
makeFile(name) == [name |-> name, localPath |-> <<"/tmp/bundle", name>>, sizeBytes |-> 512]

\* the test helper makeBundle(files)
makeBundle(files) ==
    [articleId |-> "art-1", articleTitle |-> "Test Article", files |-> files,
     tempDir |-> "/tmp/bundle"]

\* the files of the bundles given: r.r, r.R, r and .r
BundleFiles ==
    {makeFile(<<"r", ".", "r">>), makeFile(<<"r", ".", "R">>), makeFile(<<"r">>),
     makeFile(<<".", "r">>)}
Bundles == {makeBundle(files) : files \in SeqsUpTo(BundleFiles, MaxFiles)}

\* extensions: ReadonlyArray<string> = DEFAULT_CODE_EXTENSIONS
ExtensionsOf(option) == IF option = << >> THEN DEFAULT_CODE_EXTENSIONS ELSE option[1]

\* new Set(extensions.map((e) => e.toLowerCase()))
ExtensionSet(given) == {toLowerCase(given[i]) : i \in 1..Len(given)}

\* String.prototype.lastIndexOf, searching backwards from 0-based position i
RECURSIVE LastIndexFrom(_, _, _)
LastIndexFrom(s, ch, i) ==
    IF i < 0 THEN -1
    ELSE IF s[i + 1] = ch THEN i
    ELSE LastIndexFrom(s, ch, i - 1)

\* String.prototype.lastIndexOf
lastIndexOf(s, ch) == LastIndexFrom(s, ch, Len(s) - 1)

\* String.prototype.slice(start), 0 <= start <= length
SliceFrom(s, start) == SubSeq(s, start + 1, Len(s))

\* isCodeFile with the extension compared as it is written in the filename
isCodeFileExtAsIs(exts, filename) ==
    LET lastDot == lastIndexOf(filename, ".")
    IN  IF lastDot <= 0 \/ lastDot = Len(filename) - 1 THEN FALSE
        ELSE SliceFrom(filename, lastDot) \in exts

\* CodeFileIdentifier.isCodeFile, with exts the contents of this.extensions
isCodeFile(exts, filename) ==
    LET lastDot == lastIndexOf(filename, ".")
    IN  IF lastDot <= 0 \/ lastDot = Len(filename) - 1 THEN FALSE
        ELSE LET ext == toLowerCase(SliceFrom(filename, lastDot))
             IN  ext \in exts

\* bundle.files.filter((f) => this.isCodeFile(f.name)), from index i
RECURSIVE FilterFilesFrom(_, _, _)
FilterFilesFrom(exts, files, i) ==
    IF i > Len(files) THEN << >>
    ELSE IF isCodeFile(exts, files[i].name)
         THEN <<files[i]>> \o FilterFilesFrom(exts, files, i + 1)
         ELSE FilterFilesFrom(exts, files, i + 1)

\* identifyCodeFiles that returns the files array as it is
identifyCodeFilesUnfiltered(exts, b) == b.files

\* CodeFileIdentifier.identifyCodeFiles, with exts the contents of this.extensions
identifyCodeFiles(exts, b) == FilterFilesFrom(exts, b.files, 1)

\* no CodeFileIdentifier is in use
InitCodeIdle ==
    /\ extensions = {}
    /\ bundle = undefined

\* new CodeFileIdentifier(extensions)
InitIdentifier(option) ==
    /\ extensions = ExtensionSet(ExtensionsOf(option))
    /\ supplied = ExtensionsOf(option)
    /\ bundle = undefined

\* CodeFileIdentifier.setExtensions(extensions)
setExtensions(given) ==
    /\ extensions' = ExtensionSet(given)
    /\ supplied' = given

-----------------------------------------------------------------------------
(* Promises and Promise.all *)

\* a slot of Promise.all's values array that no element has resolved yet
empty == [empty |-> TRUE]

Pending == [state |-> "pending", value |-> undefined]
Fulfilled(value) == [state |-> "fulfilled", value |-> value]
Rejected(error) == [state |-> "rejected", value |-> error]

AnyPending(promises) == \E i \in 1..Len(promises) : promises[i].state = "pending"

\* a resolve element function that appends, so that values are in completion order
ResolveElementPush(values, index, x) ==
    [values EXCEPT ![CHOOSE k \in 1..Len(values) :
                        /\ values[k] = empty
                        /\ \A m \in 1..(k - 1) : values[m] # empty] = x]

\* Promise.all's resolve element function of the element at index: values[index] = x
ResolveElement(values, index, x) == [values EXCEPT ![index] = x]

\* a combinator that fulfils as soon as one element is fulfilled
PromiseAllFulfilOnFirst(state, result, values) ==
    IF state = "pending" /\ \E k \in 1..Len(values) : values[k] # empty
    THEN <<"fulfilled", values>>
    ELSE <<state, result>>

\* a Promise.all whose count of remaining elements starts one too low
PromiseAllFulfilOffByOne(state, result, values) ==
    IF state = "pending" /\ Cardinality({k \in 1..Len(values) : values[k] = empty}) <= 1
    THEN <<"fulfilled", values>>
    ELSE <<state, result>>

\* Promise.all once an element is fulfilled: it fulfils, with the values array,
\* when no element remains; <<state, result>> of the promise it returned
PromiseAllFulfil(state, result, values) ==
    IF state = "pending" /\ \A k \in 1..Len(values) : values[k] # empty
    THEN <<"fulfilled", values>>
    ELSE <<state, result>>

\* a Promise.all that takes no notice of a rejected element
PromiseAllRejectIgnored(state, result, error) == <<state, result>>

\* a combinator that reports the latest failure
PromiseAllRejectLatest(state, result, error) ==
    IF state \in {"pending", "rejected"} THEN <<"rejected", error>> ELSE <<state, result>>

\* Promise.all once an element is rejected: it rejects with that error, unless
\* it is settled already
PromiseAllReject(state, result, error) ==
    IF state = "pending" THEN <<"rejected", error>> ELSE <<state, result>>

-----------------------------------------------------------------------------
(* candidate-identification.ts *)

MaxPage == 2         \* largest page number asked for

PageOptions == {<< >>} \cup {<<p>> : p \in 1..MaxPage}

\* the article lists the fetchArticles collaborator resolves with
FetchResults == {<< >>, <<aNone>>, <<aMatch, aNone, aSpan>>}

\* the error a failed fetchArticles invocation rejects with
FetchError(i) == [error |-> "fetch failed", invocation |-> i]

\* new Error('JournalRegistry is empty ...')
RegistryEmptyError == [error |-> "JournalRegistry is empty"]

InitIdentifyIdle ==
    /\ icStatus = "idle"
    /\ icJournals = << >>
    /\ icPage = << >>
    /\ fetchPromises = << >>
    /\ icValues = << >>
    /\ icReturn = undefined
    /\ fetchCalls = << >>
    /\ icReconfigured = FALSE

\* a page that is 1 whatever options.page is
PageOfDefaultOnly(option) == 1

\* const { page = 1 } = options
PageOf(option) == IF option = << >> THEN 1 ELSE option[1]

\* a map that runs the callbacks from the last journal to the first
FetchCallsOfReversed(js, page) ==
    [i \in 1..Len(js) |-> [journalId |-> js[Len(js) + 1 - i].id, page |-> page]]

\* journals.map(async (journal) => { await fetchArticles(journal.id, page) ... }):
\* map runs the callbacks in index order, each up to its await, so that the
\* fetchArticles calls are made one after the other, none waiting for another
FetchCallsOf(js, page) ==
    [i \in 1..Len(js) |-> [journalId |-> js[i].id, page |-> page]]

\* identifyCandidates(options), up to its await: the guard, registry.list(),
\* and journals.map, which runs every callback up to its own await, that is,
\* issues every fetchArticles call
identifyCandidates(pageOption) ==
    /\ icStatus # "pending"
    /\ ~AnyPending(fetchPromises)
    /\ icPage' = pageOption
    /\ icReconfigured' = FALSE
    /\ IF ~hasAny(journals)
       THEN /\ icStatus' = "rejected"
            /\ icReturn' = RegistryEmptyError
            /\ icJournals' = << >>
            /\ fetchCalls' = << >>
            /\ fetchPromises' = << >>
            /\ icValues' = << >>
       ELSE LET js == list(journals)
                page == PageOf(pageOption)
            IN  /\ icJournals' = js
                /\ fetchCalls' = FetchCallsOf(js, page)
                /\ fetchPromises' = [i \in 1..Len(js) |-> Pending]
                /\ icValues' = [i \in 1..Len(js) |-> empty]
                /\ LET all == PromiseAllFulfil("pending", undefined, icValues')
                   IN  icStatus' = all[1] /\ icReturn' = all[2]
    /\ UNCHANGED <<scannerVars, registryVars>>

\* a callback that names the journal the registry holds at index i on completion
CandidateResultOfRegistry(i, articles) ==
    [journalId |-> IF i <= Len(journals) THEN journals[i].id ELSE "undefined",
     candidates |-> filterCandidates(arrays[keywords], articles)]

\* a callback that returns the fetched articles as candidates, unfiltered
CandidateResultUnfiltered(i, articles) ==
    [journalId |-> icJournals[i].id, candidates |-> articles]

\* the callback's return value for the journal at index i
CandidateResult(i, articles) ==
    [journalId |-> icJournals[i].id,
     candidates |-> filterCandidates(arrays[keywords], articles)]

\* the fetchArticles invocation at index i resolves with articles: the callback
\* goes on after its await, filters and returns its record to Promise.all
FetchFulfils(i, articles) ==
    /\ i \in 1..Len(fetchPromises)
    /\ fetchPromises[i].state = "pending"
    /\ fetchPromises' = [fetchPromises EXCEPT ![i] = Fulfilled(articles)]
    /\ icValues' = ResolveElement(icValues, i, CandidateResult(i, articles))
    /\ LET all == PromiseAllFulfil(icStatus, icReturn, icValues')
       IN  icStatus' = all[1] /\ icReturn' = all[2]
    /\ UNCHANGED <<icJournals, icPage, fetchCalls, icReconfigured, scannerVars, registryVars>>

\* the fetchArticles invocation at index i fails: the callback's await throws
FetchRejects(i) ==
    /\ i \in 1..Len(fetchPromises)
    /\ fetchPromises[i].state = "pending"
    /\ fetchPromises' = [fetchPromises EXCEPT ![i] = Rejected(FetchError(i))]
    /\ LET all == PromiseAllReject(icStatus, icReturn, FetchError(i))
       IN  icStatus' = all[1] /\ icReturn' = all[2]
    /\ UNCHANGED <<icJournals, icPage, icValues, fetchCalls, icReconfigured, scannerVars,
                   registryVars>>

-----------------------------------------------------------------------------
(* bundle-downloader.ts *)

DEFAULT_MAX_BUNDLES == 10

MaxCandidates == 11  \* longest candidate list
MaxCap == 3          \* largest maxBundles given explicitly

\* a JavaScript number: twice / 2, NaN or Infinity
Num(twice) == [kind |-> "finite", twice |-> twice]
NaN == [kind |-> "NaN", twice |-> 0]
Infinity == [kind |-> "Infinity", twice |-> 0]

\* Number.isInteger
NumberIsInteger(x) == x.kind = "finite" /\ x.twice % 2 = 0

\* x < 1
LessThanOne(x) == x.kind = "finite" /\ x.twice < 2

\* ToIntegerOrInfinity, with Infinity cut to len
ToInteger(x, len) ==
    CASE x.kind = "NaN" -> 0
      [] x.kind = "Infinity" -> len
      [] OTHER -> IF x.twice >= 0 THEN x.twice \div 2 ELSE -((-x.twice) \div 2)

\* Array.prototype.slice(0, end)
SliceTo(arr, end) ==
    LET len == Len(arr)
        rel == ToInteger(end, len)
        final == IF rel < 0 THEN (IF len + rel < 0 THEN 0 ELSE len + rel)
                 ELSE (IF rel < len THEN rel ELSE len)
    IN  SubSeq(arr, 1, final)

\* the test helper makeArticle(id)
makeArticle(n) == Article(<<"a", n>>, tData, tCodeBase, tEmpty)

\* the candidate lists given: a1, a2, ... an of every length, and short lists
\* a1, a2, a1, ... in which an article occurs more than once
CandidateLists ==
    {[i \in 1..n |-> makeArticle(i)] : n \in 0..MaxCandidates}
    \cup {[i \in 1..n |-> makeArticle(((i - 1) % 2) + 1)] : n \in 0..(MaxCap + 1)}

\* options.maxBundles: omitted, or a number
MaxBundlesOptions ==
    {<< >>, <<NaN>>, <<Infinity>>} \cup {<<Num(t)>> : t \in (-2)..(2 * MaxCap)}

\* the downloadBundle collaborators given: makeBundle, which echoes the
\* article, and one that resolves with the same bundle for every article
DownloadFns == {"makeBundle", "fixed"}

\* the collaborator that does not echo is given short candidate lists
DownloadInputs ==
    {in \in CandidateLists \X DownloadFns : in[2] = "fixed" => Len(in[1]) <= MaxCap + 1}

\* the invocations of a batch of n that may fail: the first two and the last
MayFail(i, n) == i \in {1, 2, n}

\* the bundle the collaborator fn resolves with for article
BundleOf(fn, article) ==
    IF fn = "makeBundle"
    THEN [articleId |-> article.id, articleTitle |-> article.title,
          files |-> <<[name |-> "analysis.py", localPath |-> <<"/tmp", article.id>>,
                       sizeBytes |-> 1024]>>,
          tempDir |-> <<"/tmp", article.id>>]
    ELSE [articleId |-> "x1", articleTitle |-> "Article x1", files |-> << >>,
          tempDir |-> <<"/tmp", "x1">>]

\* the error a failed downloadBundle invocation rejects with
DownloadError(i) == [error |-> "download failed", invocation |-> i]

\* new Error(`maxBundles must be a positive integer, got: ${maxBundles}`)
MaxBundlesError(x) == [error |-> "maxBundles must be a positive integer", got |-> x]

InitDownloadIdle ==
    /\ dbStatus = "idle"
    /\ dbCandidates = << >>
    /\ dbMaxBundles = << >>
    /\ dbFn = "makeBundle"
    /\ dbBatch = << >>
    /\ dlPromises = << >>
    /\ dbValues = << >>
    /\ dbReturn = undefined
    /\ downloadCalls = << >>

\* const { maxBundles = DEFAULT_MAX_BUNDLES } = options
MaxBundlesOf(option) == IF option = << >> THEN Num(2 * DEFAULT_MAX_BUNDLES) ELSE option[1]

\* a guard that leaves out Number.isInteger
InvalidMaxBundlesNoIntegerTest(maxBundles) == LessThanOne(maxBundles)

\* !Number.isInteger(maxBundles) || maxBundles < 1
InvalidMaxBundles(maxBundles) == ~NumberIsInteger(maxBundles) \/ LessThanOne(maxBundles)

\* a batch that is not cut to maxBundles
BatchUncut(candidates, maxBundles) == candidates

\* const batch = candidates.slice(0, maxBundles)
Batch(candidates, maxBundles) == SliceTo(candidates, maxBundles)

\* downloadBundles(options), up to its await: the guard, the slice, and
\* batch.map, which issues every downloadBundle call
downloadBundles(candidates, maxBundlesOption, fn) ==
    /\ dbStatus = "idle"
    /\ dbCandidates' = candidates
    /\ dbMaxBundles' = maxBundlesOption
    /\ dbFn' = fn
    /\ LET maxBundles == MaxBundlesOf(maxBundlesOption)
       IN  IF InvalidMaxBundles(maxBundles)
           THEN /\ dbStatus' = "rejected"
                /\ dbReturn' = MaxBundlesError(maxBundles)
                /\ dbBatch' = << >>
                /\ downloadCalls' = << >>
                /\ dlPromises' = << >>
                /\ dbValues' = << >>
           ELSE LET batch == Batch(candidates, maxBundles)
                IN  /\ dbBatch' = batch
                    /\ downloadCalls' = batch
                    /\ dlPromises' = [i \in 1..Len(batch) |-> Pending]
                    /\ dbValues' = [i \in 1..Len(batch) |-> empty]
                    /\ LET all == PromiseAllFulfil("pending", undefined, dbValues')
                       IN  dbStatus' = all[1] /\ dbReturn' = all[2]

\* a callback that sets articleId and articleTitle from the article
DownloadCallbackRepaired(fn, article) ==
    [BundleOf(fn, article) EXCEPT !.articleId = article.id,
                                  !.articleTitle = article.title]

\* (article) => downloadBundle(article): the element Promise.all is given
\* resolves with what the collaborator resolves with
DownloadCallback(fn, article) == BundleOf(fn, article)

\* the downloadBundle invocation at index i resolves with its bundle
DownloadFulfils(i) ==
    /\ i \in 1..Len(dlPromises)
    /\ dlPromises[i].state = "pending"
    /\ dlPromises' = [dlPromises EXCEPT ![i] = Fulfilled(BundleOf(dbFn, dbBatch[i]))]
    /\ dbValues' = ResolveElement(dbValues, i, DownloadCallback(dbFn, dbBatch[i]))
    /\ LET all == PromiseAllFulfil(dbStatus, dbReturn, dbValues')
       IN  dbStatus' = all[1] /\ dbReturn' = all[2]
    /\ UNCHANGED <<dbCandidates, dbMaxBundles, dbFn, dbBatch, downloadCalls>>

\* the downloadBundle invocation at index i fails
DownloadRejects(i) ==
    /\ i \in 1..Len(dlPromises)
    /\ dlPromises[i].state = "pending"
    /\ MayFail(i, Len(dlPromises))
    /\ dlPromises' = [dlPromises EXCEPT ![i] = Rejected(DownloadError(i))]
    /\ LET all == PromiseAllReject(dbStatus, dbReturn, DownloadError(i))
       IN  dbStatus' = all[1] /\ dbReturn' = all[2]
    /\ UNCHANGED <<dbCandidates, dbMaxBundles, dbFn, dbBatch, dbValues, downloadCalls>>

-----------------------------------------------------------------------------
(* The KeywordScanner on its own: a caller that reconfigures the scanner,   *)
(* changes its arrays and asks for candidates.                              *)

InitScannerOnly ==
    /\ scenario = "scanner"
    /\ InitScanner
    /\ InitCodeIdle
    /\ InitSeedIdle
    /\ InitRegistry(<< >>)
    /\ lastCall = NoCall
    /\ lastReturn = undefined
    /\ InitIdentifyIdle
    /\ InitDownloadIdle

\* the caller has read the result of its last operation
CallerContinues ==
    /\ lastCall # NoCall
    /\ lastCall' = NoCall
    /\ lastReturn' = undefined
    /\ UNCHANGED <<scenario, codeVars, seedVars, scannerVars, registryVars, icVars, dbVars>>

ScannerSetKeywords ==
    \E ref \in ArrayRefs :
        /\ setKeywords(ref)
        /\ Observe("setKeywords", ref, undefined)
        /\ UNCHANGED <<scenario, codeVars, seedVars, registryVars, icVars, dbVars>>

ScannerCallerWrites ==
    \E ref \in ArrayRefs :
      \E contents \in KeywordListsAt(ref) :
        /\ CallerWritesArray(ref, contents)
        /\ Observe("write", ref, undefined)
        /\ UNCHANGED <<scenario, codeVars, seedVars, registryVars, icVars, dbVars>>

ScannerIsCandidate ==
    \E article \in ScanArticles :
        /\ Observe("isCandidate", article, isCandidate(arrays[keywords], article))
        /\ UNCHANGED <<scenario, codeVars, seedVars, scannerVars, registryVars, icVars, dbVars>>

ScannerFilterCandidates ==
    \E articles \in ArticleLists :
        /\ Observe("filterCandidates", articles, filterCandidates(arrays[keywords], articles))
        /\ UNCHANGED <<scenario, codeVars, seedVars, scannerVars, registryVars, icVars, dbVars>>

NextScanner ==
    \/ ScannerSetKeywords
    \/ ScannerCallerWrites
    \/ ScannerIsCandidate
    \/ ScannerFilterCandidates
    \/ CallerContinues

SpecScanner == InitScannerOnly /\ [][NextScanner]_vars

-----------------------------------------------------------------------------
(* The JournalRegistry on its own *)

MaxInitial == 2      \* longest list given to the JournalRegistry constructor

InitRegistryOnly ==
    /\ scenario = "registry"
    /\ arrays = [r \in ArrayRefs |-> << >>]
    /\ keywords = "r1"
    /\ supplied = keywords
    /\ InitCodeIdle
    /\ InitSeedIdle
    /\ \E initial \in SeqsUpTo(Journals, MaxInitial) : InitRegistry(initial)
    /\ lastCall = NoCall
    /\ lastReturn = undefined
    /\ InitIdentifyIdle
    /\ InitDownloadIdle

RegistryRegister ==
    \E journal \in Journals :
        /\ register(journal)
        /\ Observe("register", journal, undefined)
        /\ UNCHANGED <<scenario, codeVars, seedVars, scannerVars, icVars, dbVars>>

RegistryRemove ==
    \E id \in JournalIds :
        /\ remove(id)
        /\ Observe("remove", id, removeResult(journals, id))
        /\ UNCHANGED <<scenario, codeVars, seedVars, scannerVars, icVars, dbVars>>

RegistryGet ==
    \E id \in JournalIds :
        /\ Observe("get", id, get(journals, id))
        /\ UNCHANGED <<scenario, codeVars, seedVars, scannerVars, registryVars, icVars, dbVars>>

RegistryList ==
    /\ Observe("list", << >>, list(journals))
    /\ UNCHANGED <<scenario, codeVars, seedVars, scannerVars, registryVars, icVars, dbVars>>

RegistryHasAny ==
    /\ Observe("hasAny", << >>, hasAny(journals))
    /\ UNCHANGED <<scenario, codeVars, seedVars, scannerVars, registryVars, icVars, dbVars>>

NextRegistry ==
    \/ RegistryRegister
    \/ RegistryRemove
    \/ RegistryGet
    \/ RegistryList
    \/ RegistryHasAny
    \/ CallerContinues

SpecRegistry == InitRegistryOnly /\ [][NextRegistry]_vars

-----------------------------------------------------------------------------
(* identifyCandidates, with a caller that registers and removes journals    *)
(* and reconfigures the scanner while fetches are pending                   *)

IdentifyJournalIds == {"nature", "science"}

InitIdentify ==
    /\ scenario = "identify"
    /\ arrays = [r \in ArrayRefs |-> IF r = "r1" THEN <<kCODE>> ELSE <<kSpan>>]
    /\ keywords \in ArrayRefs
    /\ supplied = keywords
    /\ InitCodeIdle
    /\ InitSeedIdle
    /\ \E initial \in SeqsUpTo(JournalsOf(IdentifyJournalIds), MaxInitial) : InitRegistry(initial)
    /\ lastCall = NoCall
    /\ lastReturn = undefined
    /\ InitIdentifyIdle
    /\ InitDownloadIdle

IdentifyRegister ==
    \E journal \in JournalsOf(IdentifyJournalIds) :
        /\ register(journal)
        /\ UNCHANGED <<scenario, codeVars, seedVars, scannerVars, observeVars, icVars, dbVars>>

IdentifyRemove ==
    \E id \in IdentifyJournalIds :
        /\ remove(id)
        /\ UNCHANGED <<scenario, codeVars, seedVars, scannerVars, observeVars, icVars, dbVars>>

IdentifySetKeywords ==
    \E ref \in ArrayRefs :
        /\ setKeywords(ref)
        /\ icReconfigured' = (icReconfigured \/ icStatus = "pending")
        /\ UNCHANGED <<scenario, codeVars, seedVars, registryVars, observeVars, icStatus,
                       icJournals, icPage, fetchPromises, icValues, icReturn, fetchCalls,
                       dbVars>>

IdentifyCall ==
    \E pageOption \in PageOptions :
        /\ identifyCandidates(pageOption)
        /\ UNCHANGED <<scenario, codeVars, seedVars, observeVars, dbVars>>

IdentifyFetchFulfils ==
    \E i \in 1..Len(fetchPromises), articles \in FetchResults :
        /\ FetchFulfils(i, articles)
        /\ UNCHANGED <<scenario, codeVars, seedVars, observeVars, dbVars>>

IdentifyFetchRejects ==
    \E i \in 1..Len(fetchPromises) :
        /\ FetchRejects(i)
        /\ UNCHANGED <<scenario, codeVars, seedVars, observeVars, dbVars>>

NextIdentify ==
    \/ IdentifyRegister
    \/ IdentifyRemove
    \/ IdentifySetKeywords
    \/ IdentifyCall
    \/ IdentifyFetchFulfils
    \/ IdentifyFetchRejects

SpecIdentify == InitIdentify /\ [][NextIdentify]_vars

-----------------------------------------------------------------------------
(* downloadBundles *)

InitDownload ==
    /\ scenario = "download"
    /\ arrays = [r \in ArrayRefs |-> << >>]
    /\ keywords = "r1"
    /\ supplied = keywords
    /\ InitCodeIdle
    /\ InitSeedIdle
    /\ InitRegistry(<< >>)
    /\ lastCall = NoCall
    /\ lastReturn = undefined
    /\ InitIdentifyIdle
    /\ InitDownloadIdle

DownloadCall ==
    \E in \in DownloadInputs, option \in MaxBundlesOptions :
        /\ downloadBundles(in[1], option, in[2])
        /\ UNCHANGED <<scenario, codeVars, seedVars, scannerVars, registryVars, observeVars, icVars>>

DownloadBundleFulfils ==
    \E i \in 1..Len(dlPromises) :
        /\ DownloadFulfils(i)
        /\ UNCHANGED <<scenario, codeVars, seedVars, scannerVars, registryVars, observeVars, icVars>>

DownloadBundleRejects ==
    \E i \in 1..Len(dlPromises) :
        /\ DownloadRejects(i)
        /\ UNCHANGED <<scenario, codeVars, seedVars, scannerVars, registryVars, observeVars, icVars>>

NextDownload ==
    \/ DownloadCall
    \/ DownloadBundleFulfils
    \/ DownloadBundleRejects

SpecDownload == InitDownload /\ [][NextDownload]_vars

-----------------------------------------------------------------------------
(* Two registries: one constructed with an initial list, the other          *)
(* constructed empty and given the elements of that list by register        *)

MaxSeed == 3         \* longest initial list of the seeded registry

InitSeeded ==
    /\ scenario = "seed"
    /\ arrays = [r \in ArrayRefs |-> << >>]
    /\ keywords = "r1"
    /\ supplied = keywords
    /\ InitCodeIdle
    /\ \E initial \in SeqsUpTo(Journals, MaxSeed) :
          /\ seedInitial = initial
          /\ seeded = MapFrom(<< >>, initial, 1)
    /\ seedDone = 0
    /\ InitRegistry(<< >>)
    /\ lastCall = NoCall
    /\ lastReturn = undefined
    /\ InitIdentifyIdle
    /\ InitDownloadIdle

\* register(seedInitial[k]) on the second registry, for the next k
SeedRegister ==
    /\ seedDone < Len(seedInitial)
    /\ register(seedInitial[seedDone + 1])
    /\ seedDone' = seedDone + 1
    /\ UNCHANGED <<scenario, scannerVars, codeVars, seedInitial, seeded, observeVars,
                   icVars, dbVars>>

\* the caller asks both registries for the journal of an id
SeedGet ==
    \E id \in JournalIds :
        /\ seedDone = Len(seedInitial)
        /\ Observe("get", id, <<get(seeded, id), get(journals, id)>>)
        /\ UNCHANGED <<scenario, scannerVars, codeVars, seedVars, registryVars, icVars, dbVars>>

NextSeeded ==
    \/ SeedRegister
    \/ SeedGet
    \/ CallerContinues

SpecSeeded == InitSeeded /\ [][NextSeeded]_vars

-----------------------------------------------------------------------------
(* The CodeFileIdentifier on its own *)

InitCodeFiles ==
    /\ scenario = "code"
    /\ arrays = [r \in ArrayRefs |-> << >>]
    /\ keywords = "r1"
    /\ \E option \in ExtensionOptions : InitIdentifier(option)
    /\ InitSeedIdle
    /\ InitRegistry(<< >>)
    /\ lastCall = NoCall
    /\ lastReturn = undefined
    /\ InitIdentifyIdle
    /\ InitDownloadIdle

CodeSetExtensions ==
    \E given \in ExtensionLists :
        /\ setExtensions(given)
        /\ Observe("setExtensions", given, undefined)
        /\ UNCHANGED <<scenario, arrays, keywords, bundle, seedVars, registryVars, icVars, dbVars>>

CodeIsCodeFile ==
    \E filename \in FileNames :
        /\ Observe("isCodeFile", filename, isCodeFile(extensions, filename))
        /\ UNCHANGED <<scenario, scannerVars, codeVars, seedVars, registryVars, icVars, dbVars>>

\* the caller hands over a bundle it holds; filter builds a new array and the
\* bundle is as it was
CodeIdentifyCodeFiles ==
    \E b \in Bundles :
        /\ Observe("identifyCodeFiles", b, identifyCodeFiles(extensions, b))
        /\ bundle' = b
        /\ UNCHANGED <<scenario, scannerVars, extensions, seedVars, registryVars, icVars, dbVars>>

\* the caller has read the result of its last operation and lets go of the bundle
CodeCallerContinues ==
    /\ lastCall # NoCall
    /\ lastCall' = NoCall
    /\ lastReturn' = undefined
    /\ bundle' = undefined
    /\ UNCHANGED <<scenario, scannerVars, extensions, seedVars, registryVars, icVars, dbVars>>

NextCodeFiles ==
    \/ CodeSetExtensions
    \/ CodeIsCodeFile
    \/ CodeIdentifyCodeFiles
    \/ CodeCallerContinues

SpecCodeFiles == InitCodeFiles /\ [][NextCodeFiles]_vars

-----------------------------------------------------------------------------
(* The CodeFileIdentifier and the arrays of its caller: the constructor and *)
(* setExtensions are handed an array the caller keeps and goes on writing   *)

\* what the caller's extension arrays hold
ExtensionArrays == SeqsUpTo(ExtSet, 1)

InitCodeArrays ==
    /\ scenario = "codeArrays"
    /\ arrays \in [ArrayRefs -> ExtensionArrays]
    /\ keywords = "r1"
    /\ \E ref \in ArrayRefs : InitIdentifier(<<arrays[ref]>>)
    /\ InitSeedIdle
    /\ InitRegistry(<< >>)
    /\ lastCall = NoCall
    /\ lastReturn = undefined
    /\ InitIdentifyIdle
    /\ InitDownloadIdle

\* setExtensions(a) with a one of the caller's arrays
CodeArraysSetExtensions ==
    \E ref \in ArrayRefs :
        /\ setExtensions(arrays[ref])
        /\ Observe("setExtensions", ref, undefined)
        /\ UNCHANGED <<scenario, arrays, keywords, bundle, seedVars, registryVars, icVars, dbVars>>

\* the caller changes one of its arrays; the Set built from it is another object
CodeArraysCallerWrites ==
    \E ref \in ArrayRefs :
      \E contents \in ExtensionArrays :
        /\ CallerWritesArray(ref, contents)
        /\ Observe("write", ref, undefined)
        /\ UNCHANGED <<scenario, codeVars, seedVars, registryVars, icVars, dbVars>>

NextCodeArrays ==
    \/ CodeArraysSetExtensions
    \/ CodeArraysCallerWrites
    \/ CodeIsCodeFile
    \/ CallerContinues

-----------------------------------------------------------------------------
(* Configured components and the lists they were configured with: a         *)
(* behaviour exercises a KeywordScanner or a CodeFileIdentifier             *)

InitConfigured == InitScannerOnly \/ InitCodeArrays

NextConfigured ==
    \/ scenario = "scanner" /\ NextScanner
    \/ scenario = "codeArrays" /\ NextCodeArrays

SpecConfigured == InitConfigured /\ [][NextConfigured]_vars

-----------------------------------------------------------------------------
(* Both orchestrators: a behaviour exercises one of them *)

InitOrchestrators == InitIdentify \/ InitDownload

NextOrchestrators ==
    \/ scenario = "identify" /\ NextIdentify
    \/ scenario = "download" /\ NextDownload

SpecOrchestrators == InitOrchestrators /\ [][NextOrchestrators]_vars

-----------------------------------------------------------------------------
(* The KeywordScanner as its callers use it: on its own, or within           *)
(* identifyCandidates                                                        *)

InitScannerUse == InitScannerOnly \/ InitIdentify

NextScannerUse ==
    \/ scenario = "scanner" /\ NextScanner
    \/ scenario = "identify" /\ NextIdentify

SpecScannerUse == InitScannerUse /\ [][NextScannerUse]_vars

-----------------------------------------------------------------------------
(* Properties *)

\* maxBundles, as given in the options, is a positive integer or is omitted
PositiveIntegerOrOmitted(option) ==
    \/ option = << >>
    \/ /\ option[1].kind = "finite"
       /\ option[1].twice % 2 = 0
       /\ option[1].twice >= 2

\* the cap N of the call in flight: 10 when maxBundles is omitted
CapOfCall == IF dbMaxBundles = << >> THEN 10 ELSE dbMaxBundles[1].twice \div 2

\* the smaller of two numbers
Smaller(a, b) == IF a < b THEN a ELSE b

\* C1: with a positive-integer cap N (10 when maxBundles is omitted),
\* downloadBundles invokes the download collaborator exactly min(N, |C|) times,
\* once for each of the first min(N, |C|) candidates and for no other article;
\* with an empty C it returns an empty list without invoking the collaborator.
C1_InvokesFirstMinCapCandidates ==
    (dbStatus # "idle" /\ PositiveIntegerOrOmitted(dbMaxBundles)) =>
        LET n == Smaller(CapOfCall, Len(dbCandidates))
        IN  /\ Len(downloadCalls) = n
            /\ \A i \in 1..n : downloadCalls[i] = dbCandidates[i]
            /\ (dbCandidates = << >> => dbStatus = "fulfilled" /\ dbReturn = << >>)

\* eleven candidates and no maxBundles: ten downloads, all done
C1_Witness ==
    /\ dbStatus = "fulfilled"
    /\ dbMaxBundles = << >>
    /\ Len(dbCandidates) = 11
    /\ Len(downloadCalls) = 10

\* C2: when downloadBundles succeeds, the i-th returned bundle is the bundle
\* produced by the download invocation for the i-th selected candidate, in
\* every interleaving of the completions.
C2_ResultInSelectionOrder ==
    dbStatus = "fulfilled" =>
        /\ Len(dbReturn) = Smaller(CapOfCall, Len(dbCandidates))
        /\ \A i \in 1..Len(dbReturn) :
              /\ dlPromises[i].state = "fulfilled"
              /\ dbReturn[i] = dlPromises[i].value
              /\ dbReturn[i] = BundleOf(dbFn, dbCandidates[i])

\* three downloads for three different articles have succeeded
C2_Witness ==
    /\ dbStatus = "fulfilled"
    /\ Len(dbReturn) = 3
    /\ dbReturn[1].articleId # dbReturn[2].articleId
    /\ dbReturn[2].articleId # dbReturn[3].articleId
    /\ dbReturn[1].articleId # dbReturn[3].articleId

\* C3: downloadBundles called with a cap that is zero, negative or not an
\* integer fails, for every candidate list, and the download collaborator is
\* not invoked in that call.
C3_InvalidCapFailsBeforeDownload ==
    (dbStatus # "idle" /\ ~PositiveIntegerOrOmitted(dbMaxBundles)) =>
        /\ dbStatus = "rejected"
        /\ dbReturn = MaxBundlesError(dbMaxBundles[1])
        /\ downloadCalls = << >>
        /\ dlPromises = << >>

\* a call with maxBundles 1.5 and two candidates has failed
C3_Witness ==
    /\ dbStatus = "rejected"
    /\ dbMaxBundles = <<Num(3)>>
    /\ Len(dbCandidates) = 2

\* this step is a call of identifyCandidates
IsIdentifyCall == \E pageOption \in PageOptions : identifyCandidates(pageOption)

\* C4: identifyCandidates called with a registry that holds no journal fails
\* with an error and invokes the fetch collaborator zero times; it never
\* returns an empty result list.
C4_EmptyRegistryFails ==
    /\ [][(IsIdentifyCall /\ journals = << >>) =>
            /\ icStatus' = "rejected"
            /\ icReturn' = RegistryEmptyError
            /\ fetchCalls' = << >>
            /\ fetchPromises' = << >>]_vars
    /\ [](icStatus = "fulfilled" => icReturn # << >>)

\* a call has failed on the registry that is empty
C4_Witness ==
    /\ icStatus = "rejected"
    /\ icReturn = RegistryEmptyError
    /\ journals = << >>
    /\ fetchCalls = << >>

\* C5: identifyCandidates called with a non-empty registry invokes the fetch
\* collaborator exactly once for every journal of the registry and for no
\* other id, each time with (journal.id, page), page being the page number
\* given or 1 when omitted; no later step, success or failure of a fetch,
\* adds an invocation.
C5_FetchOncePerJournal ==
    [][/\ (IsIdentifyCall /\ journals # << >>) =>
            /\ Len(fetchCalls') = Len(journals)
            /\ \A i \in 1..Len(journals) :
                  /\ fetchCalls'[i].journalId = journals[i].id
                  /\ fetchCalls'[i].page = (IF icPage' = << >> THEN 1 ELSE icPage'[1])
       /\ (~IsIdentifyCall => fetchCalls' = fetchCalls)]_vars

\* two journals were asked for page 2; one fetch failed, the other succeeded
C5_Witness ==
    /\ Len(fetchCalls) = 2
    /\ fetchCalls[1].journalId # fetchCalls[2].journalId
    /\ fetchCalls[1].page = 2
    /\ fetchCalls[2].page = 2
    /\ fetchPromises[1].state = "rejected"
    /\ fetchPromises[2].state = "fulfilled"

\* the fetch at index i is fulfilled in this step
FetchFulfilledNow(i) ==
    /\ i \in 1..Len(fetchPromises)
    /\ fetchPromises[i].state = "pending"
    /\ fetchPromises' # fetchPromises
    /\ fetchPromises'[i].state = "fulfilled"

\* C6: when identifyCandidates succeeds, its result holds exactly one record
\* {journalId, candidates} for each journal that was in the registry when the
\* call was made, and no other record, with candidates the scanner's
\* filterCandidates of the articles fetched for that journal; also when
\* register or remove is called while fetches are pending.
C6_OneRecordPerJournalAtCall ==
    /\ [][(IsIdentifyCall /\ journals # << >>) => icJournals' = journals]_vars
    /\ [][~IsIdentifyCall =>
            /\ icJournals' = icJournals
            /\ \A i \in 1..Len(icValues) :
                  /\ FetchFulfilledNow(i) =>
                        icValues'[i] =
                            [journalId |-> icJournals[i].id,
                             candidates |-> filterCandidates(arrays[keywords],
                                                             fetchPromises'[i].value)]
                  /\ icValues[i] # empty => icValues'[i] = icValues[i]]_vars
    /\ [](icStatus = "fulfilled" =>
            /\ Len(icReturn) = Len(icJournals)
            /\ \A i \in 1..Len(icJournals) :
                  /\ fetchPromises[i].state = "fulfilled"
                  /\ \E k \in 1..Len(icReturn) :
                        /\ icReturn[k] = icValues[i]
                        /\ icReturn[k].journalId = icJournals[i].id
                        /\ \A m \in 1..Len(icReturn) :
                              icReturn[m].journalId = icJournals[i].id => m = k)

\* a call for two journals has succeeded with a candidate, after one of the
\* two journals was removed and the other replaced
C6_Witness ==
    /\ icStatus = "fulfilled"
    /\ Len(icReturn) = 2
    /\ Len(journals) = 1
    /\ journals[1] # icJournals[1]
    /\ journals[1] # icJournals[2]
    /\ icReturn[1].candidates # << >>

\* C7: if a collaborator invocation of the batch fails, the orchestrator call
\* fails with the error of a failed invocation, unchanged, returns no result
\* list, and the collaborator is invoked once for each journal or selected
\* article and never again.
C7_FailFastSameError ==
    /\ (\E i \in 1..Len(fetchPromises) : fetchPromises[i].state = "rejected") =>
            /\ icStatus = "rejected"
            /\ \E i \in 1..Len(fetchPromises) :
                  fetchPromises[i].state = "rejected" /\ icReturn = fetchPromises[i].value
            /\ Len(fetchCalls) = Len(icJournals)
            /\ \A i \in 1..Len(fetchCalls) : fetchCalls[i].journalId = icJournals[i].id
    /\ (\E i \in 1..Len(dlPromises) : dlPromises[i].state = "rejected") =>
            /\ dbStatus = "rejected"
            /\ \E i \in 1..Len(dlPromises) :
                  dlPromises[i].state = "rejected" /\ dbReturn = dlPromises[i].value
            /\ downloadCalls = dbBatch

\* the second of three downloads has failed after the first succeeded, with
\* the third still pending
C7_Witness ==
    /\ dbStatus = "rejected"
    /\ Len(dlPromises) = 3
    /\ dlPromises[1].state = "fulfilled"
    /\ dlPromises[2].state = "rejected"
    /\ dlPromises[3].state = "pending"
    /\ dbReturn = DownloadError(2)


\* needle is a substring of hay
IsSubstring(needle, hay) ==
    \E i \in 1..(Len(hay) + 1) :
        /\ i + Len(needle) - 1 <= Len(hay)
        /\ SubSeq(hay, i, i + Len(needle) - 1) = needle

\* the i-th smallest element of the set of numbers S
NthOf(S, i) == CHOOSE n \in S : Cardinality({m \in S : m <= n}) = i

\* C8: isCandidate(A) is true if and only if the lower-cased string
\* title + ' ' + abstract + ' ' + fullText contains the lower-cased form of
\* at least one keyword of the scanner's list as a substring; with an empty
\* list it is false.
C8_IsCandidateIffSubstring ==
    lastCall.op = "isCandidate" =>
        LET K == arrays[keywords]
            A == lastCall.arg
            text == toLowerCase(A.title \o <<" ">> \o A.abstract \o <<" ">> \o A.fullText)
        IN  /\ lastReturn = (\E k \in 1..Len(K) : IsSubstring(toLowerCase(K[k]), text))
            /\ (K = << >> => lastReturn = FALSE)

\* the keyword CODE has matched inside the word CodeBase
C8_Witness ==
    /\ lastCall.op = "isCandidate"
    /\ arrays[keywords] = <<kCODE>>
    /\ lastCall.arg.title = tData
    /\ lastCall.arg.abstract = tEmpty
    /\ lastCall.arg.fullText = tCodeBase
    /\ lastReturn = TRUE

\* C9: filterCandidates(L) is the subsequence of L, in the original order and
\* keeping duplicates, of exactly the articles for which isCandidate is true
\* under the scanner's current keyword list.
C9_FilterIsSubsequence ==
    lastCall.op = "filterCandidates" =>
        LET K == arrays[keywords]
            L == lastCall.arg
            kept == {i \in 1..Len(L) : isCandidate(K, L[i])}
        IN  /\ Len(lastReturn) = Cardinality(kept)
            /\ \A j \in 1..Len(lastReturn) : lastReturn[j] = L[NthOf(kept, j)]

\* a candidate, a non-candidate and the same candidate again were filtered
C9_Witness ==
    /\ lastCall.op = "filterCandidates"
    /\ lastCall.arg = <<aMatch, aNone, aMatch>>
    /\ lastReturn = <<aMatch, aMatch>>

\* C10: immediately after register(J), get(J.id) returns J; immediately after
\* remove(id), get(id) is absent and a further remove(id) would return false;
\* remove(id) returns true exactly when an entry with that id existed before
\* the call.
C10_RegisterGetRemove ==
    /\ [](lastCall.op = "register" => get(journals, lastCall.arg.id) = lastCall.arg)
    /\ [](lastCall.op = "remove" =>
            /\ get(journals, lastCall.arg) = undefined
            /\ removeResult(journals, lastCall.arg) = FALSE)
    /\ [][(lastCall = NoCall /\ lastCall'.op = "remove") =>
            (lastReturn' = (\E i \in 1..Len(journals) : journals[i].id = lastCall'.arg))]_vars

\* a registered id has been re-registered with another value
C10_Witness ==
    /\ lastCall.op = "register"
    /\ Len(journals) = 2
    /\ journals[1] = lastCall.arg
    /\ lastCall.arg = Journal("nature", 2)

\* this step is the call register(J) by the registry's caller
IsRegisterOf(J) == lastCall = NoCall /\ lastCall' = [op |-> "register", arg |-> J]

\* this step is the call remove(id) by the registry's caller
IsRemoveOf(id) == lastCall = NoCall /\ lastCall' = [op |-> "remove", arg |-> id]

\* C11: list() holds the registered journals ordered by when their id was last
\* inserted while absent: register of an id already present replaces the value
\* at the same position and leaves the length of list() unchanged, register of
\* an id not present appends it at the end, and remove takes the journal of
\* that id out and leaves the others in their order.
C11_ListInInsertionOrder ==
    /\ [][\A J \in Journals : IsRegisterOf(J) =>
            IF \E i \in 1..Len(list(journals)) : list(journals)[i].id = J.id
            THEN /\ Len(list(journals')) = Len(list(journals))
                 /\ \A i \in 1..Len(list(journals)) :
                       list(journals')[i] =
                           (IF list(journals)[i].id = J.id THEN J ELSE list(journals)[i])
            ELSE list(journals') = list(journals) \o <<J>>]_vars
    /\ [][\A id \in JournalIds : IsRemoveOf(id) =>
            list(journals') = SelectSeq(list(journals), LAMBDA j : j.id # id)]_vars
    /\ [](lastCall.op = "list" => lastReturn = list(journals))

\* science, second of three journals, has been re-registered with another value
C11_Witness ==
    /\ lastCall.op = "register"
    /\ lastCall.arg = Journal("science", 2)
    /\ Len(journals) = 3
    /\ journals[1].id = "cell"
    /\ journals[2] = lastCall.arg
    /\ journals[3].id = "nature"

\* C12: a registry constructed with the list L, duplicate ids allowed, and an
\* empty registry on which register was called for each element of L in order
\* have the same list(), the same get(id) for every id and the same hasAny().
C12_SeedEqualsRegisterEach ==
    seedDone = Len(seedInitial) =>
        /\ list(seeded) = list(journals)
        /\ \A id \in JournalIds : get(seeded, id) = get(journals, id)
        /\ hasAny(seeded) = hasAny(journals)
        /\ (lastCall.op = "get" => lastReturn[1] = lastReturn[2])

\* a list of three journals whose first and last have the same id was given
\* to the constructor and registered one by one
C12_Witness ==
    /\ Len(seedInitial) = 3
    /\ seedDone = 3
    /\ seedInitial[1].id = seedInitial[3].id
    /\ seedInitial[1] # seedInitial[3]
    /\ seedInitial[2].id # seedInitial[1].id
    /\ seeded = <<seedInitial[3], seedInitial[2]>>
    /\ lastCall.op = "get"
    /\ lastReturn[1] = seedInitial[3]

\* the 1-based positions of '.' in the filename f
DotsOf(f) == {i \in 1..Len(f) : f[i] = "."}

\* the largest element of the non-empty set of numbers S
MaxOf(S) == CHOOSE n \in S : \A m \in S : m <= n

C14_CodeFilesIsSubsequence ==
    lastCall.op = "identifyCodeFiles" =>
        LET B == lastCall.arg
            kept == {i \in 1..Len(B.files) : isCodeFile(extensions, B.files[i].name)}
        IN  /\ Len(lastReturn) = Cardinality(kept)
            /\ \A j \in 1..Len(lastReturn) : lastReturn[j] = B.files[NthOf(kept, j)]
            /\ bundle = B
            /\ bundle.files = B.files

\* of the files r.R, r and r.r the first and the last were returned
C14_Witness ==
    /\ lastCall.op = "identifyCodeFiles"
    /\ Len(lastCall.arg.files) = 3
    /\ lastCall.arg.files[1].name = <<"r", ".", "R">>
    /\ lastCall.arg.files[2].name = <<"r">>
    /\ lastCall.arg.files[3].name = <<"r", ".", "r">>
    /\ lastReturn = <<lastCall.arg.files[1], lastCall.arg.files[3]>>

\* C15: after the constructor and any sequence of setKeywords calls, the
\* last of which was given the list K, isCandidate and filterCandidates
\* return what a KeywordScanner newly constructed with K returns, in direct
\* calls and in the calls identifyCandidates makes; a setKeywords call changes
\* no result that was returned before it.
C15_SetKeywordsReplaces ==
    /\ [](lastCall.op = "isCandidate" =>
            lastReturn = isCandidate(arrays[supplied], lastCall.arg))
    /\ [](lastCall.op = "filterCandidates" =>
            lastReturn = filterCandidates(arrays[supplied], lastCall.arg))
    /\ [][\A i \in 1..Len(icValues) :
            FetchFulfilledNow(i) =>
                icValues'[i].candidates =
                    filterCandidates(arrays[supplied], fetchPromises'[i].value)]_vars
    /\ [][supplied' # supplied =>
            /\ icValues' = icValues
            /\ icReturn' = icReturn
            /\ arrays' = arrays]_vars

\* the scanner was given another list between two fetches of one call: the
\* first record was filtered with CODE, the second with 'e d'
C15_Witness ==
    /\ icStatus = "fulfilled"
    /\ Len(icReturn) = 2
    /\ fetchPromises[1].value = <<aMatch, aNone, aSpan>>
    /\ fetchPromises[2].value = <<aMatch, aNone, aSpan>>
    /\ icReturn[1].candidates = <<aMatch, aSpan>>
    /\ icReturn[2].candidates = <<aSpan>>
    /\ arrays[supplied] = <<kSpan>>

\* C16: every bundle returned by downloadBundles is the value the download
\* collaborator resolved with for the article at that position: articleId,
\* articleTitle, files and tempDir are the collaborator's, also when they do
\* not match the article.
C16_BundlesPassThrough ==
    dbStatus = "fulfilled" =>
        /\ Len(dbReturn) = Len(dlPromises)
        /\ \A i \in 1..Len(dlPromises) :
              /\ dlPromises[i].state = "fulfilled"
              /\ downloadCalls[i] = dbCandidates[i]
              /\ dbReturn[i].articleId = dlPromises[i].value.articleId
              /\ dbReturn[i].articleTitle = dlPromises[i].value.articleTitle
              /\ dbReturn[i].files = dlPromises[i].value.files
              /\ dbReturn[i].tempDir = dlPromises[i].value.tempDir
              /\ DOMAIN dbReturn[i] = DOMAIN dlPromises[i].value

\* the collaborator resolved with the bundle of article x1 for two other
\* articles, and both bundles were returned
C16_Witness ==
    /\ dbStatus = "fulfilled"
    /\ dbFn = "fixed"
    /\ Len(dbReturn) = 2
    /\ dbReturn[1].articleId = "x1"
    /\ dbReturn[2].articleId = "x1"
    /\ dbCandidates[1].id # dbCandidates[2].id

\* some promise of the batch is rejected
AnyRejected(promises) == \E i \in 1..Len(promises) : promises[i].state = "rejected"

\* C17, as stated: while a collaborator invocation issued by an orchestrator
\* call has not resolved, the orchestrator call has not resolved either,
\* whatever the other invocations of the batch do.
C17_PendingInvocationKeepsCallPending ==
    /\ AnyPending(fetchPromises) => icStatus = "pending"
    /\ AnyPending(dlPromises) => dbStatus = "pending"

\* C17, amended: while a collaborator invocation issued by an orchestrator
\* call has not resolved and no invocation of the batch has failed, the call
\* has not resolved; once another invocation of the batch has failed, the
\* call has failed, with the first invocation still unresolved.
C17_PendingUnlessAnotherFails ==
    /\ (AnyPending(fetchPromises) /\ ~AnyRejected(fetchPromises)) => icStatus = "pending"
    /\ (AnyPending(fetchPromises) /\ AnyRejected(fetchPromises)) => icStatus = "rejected"
    /\ (AnyPending(dlPromises) /\ ~AnyRejected(dlPromises)) => dbStatus = "pending"
    /\ (AnyPending(dlPromises) /\ AnyRejected(dlPromises)) => dbStatus = "rejected"

\* the second fetch is done, the first has not resolved, and the call waits
C17_Witness ==
    /\ Len(fetchPromises) = 2
    /\ fetchPromises[1].state = "pending"
    /\ fetchPromises[2].state = "fulfilled"
    /\ icStatus = "pending"

\* C18: an orchestrator call is completed only in states where every
\* collaborator invocation it issued has completed or at least one of them
\* has failed, and it has succeeded only in states where every invocation it
\* issued has succeeded.
C18_CompletesWhenAllDoneOrOneFailed ==
    /\ icStatus \in {"fulfilled", "rejected"} =>
            ~AnyPending(fetchPromises) \/ AnyRejected(fetchPromises)
    /\ icStatus = "fulfilled" =>
            \A i \in 1..Len(fetchPromises) : fetchPromises[i].state = "fulfilled"
    /\ dbStatus \in {"fulfilled", "rejected"} =>
            ~AnyPending(dlPromises) \/ AnyRejected(dlPromises)
    /\ dbStatus = "fulfilled" =>
            \A i \in 1..Len(dlPromises) : dlPromises[i].state = "fulfilled"

\* a call for two journals has succeeded, the second fetch having been the
\* first to complete with articles
C18_Witness ==
    /\ icStatus = "fulfilled"
    /\ Len(fetchPromises) = 2
    /\ fetchPromises[1].value = << >>
    /\ fetchPromises[2].value = <<aNone>>

\* this step is a call of downloadBundles
IsDownloadCall == dbStatus = "idle" /\ dbStatus' # "idle"

\* C19: the k-th fetch issued by identifyCandidates is for the k-th journal of
\* registry.list(), the k-th download issued by downloadBundles is for the
\* k-th candidate of the input, and the invocations of a batch are all issued
\* in the step of the call, none having completed, and none is issued later.
C19_IssuedInOrderWithoutWaiting ==
    /\ [][(IsIdentifyCall /\ hasAny(journals)) =>
            /\ Len(fetchCalls') = Len(list(journals))
            /\ Len(fetchPromises') = Len(list(journals))
            /\ \A k \in 1..Len(list(journals)) :
                  /\ fetchCalls'[k].journalId = list(journals)[k].id
                  /\ fetchPromises'[k].state = "pending"]_vars
    /\ [][IsDownloadCall =>
            /\ Len(downloadCalls') <= Len(dbCandidates')
            /\ Len(dlPromises') = Len(downloadCalls')
            /\ \A k \in 1..Len(downloadCalls') :
                  /\ downloadCalls'[k] = dbCandidates'[k]
                  /\ dlPromises'[k].state = "pending"]_vars
    /\ [][~IsIdentifyCall => fetchCalls' = fetchCalls]_vars
    /\ [][~IsDownloadCall => downloadCalls' = downloadCalls]_vars

\* science was registered before nature: the fetch for science was issued
\* first, the fetch for nature second, and neither has completed
C19_Witness ==
    /\ icStatus = "pending"
    /\ Len(fetchCalls) = 2
    /\ fetchCalls[1].journalId = "science"
    /\ fetchCalls[2].journalId = "nature"
    /\ fetchPromises[1].state = "pending"
    /\ fetchPromises[2].state = "pending"

\* the records of the result were all computed with the keyword list K
SameKeywordList(K) ==
    \A i \in 1..Len(icReturn) :
        icReturn[i].candidates = filterCandidates(K, fetchPromises[i].value)

IsCallerWrite == lastCall = NoCall /\ lastCall' # NoCall /\ lastCall'.op = "write"

\* C21: each KeywordScanner and each CodeFileIdentifier owns its
\* configuration: after the constructor or setKeywords/setExtensions has been
\* given a list, a later change the caller makes to that list object does not
\* change what isCandidate or isCodeFile of the instance returns.
C21_ConfigurationIsOwned ==
    [][IsCallerWrite =>
          /\ scenario = "scanner" =>
                \A article \in ScanArticles :
                    isCandidate(arrays'[keywords'], article)
                        = isCandidate(arrays[keywords], article)
          /\ scenario = "codeArrays" =>
                \A filename \in FileNames :
                    isCodeFile(extensions', filename) = isCodeFile(extensions, filename)]_vars


\* the keyword appears, whatever the case of its letters, in one of the three
\* text fields of the article
AppearsInAField(kw, article) ==
    \/ IsSubstring(toLowerCase(kw), toLowerCase(article.title))
    \/ IsSubstring(toLowerCase(kw), toLowerCase(article.abstract))
    \/ IsSubstring(toLowerCase(kw), toLowerCase(article.fullText))

\* C22: for every keyword list, isCandidate returns false for an article when
\* no keyword appears (case-insensitively) in any of its fields title,
\* abstract, fullText taken individually; in particular an article whose three
\* text fields are all empty strings is never a candidate.
C22_NoFieldHasKeywordThenNotCandidate ==
    (lastCall # NoCall /\ lastCall.op = "isCandidate") =>
        LET K == arrays[keywords]
            A == lastCall.arg
        IN  /\ (\A k \in 1..Len(K) : ~AppearsInAField(K[k], A)) => lastReturn = FALSE
            /\ (A.title = tEmpty /\ A.abstract = tEmpty /\ A.fullText = tEmpty)
                    => lastReturn = FALSE


\* the invocation at index i of the batch fails in this step
FailsNow(promises, promisesNext, i) ==
    /\ i \in 1..Len(promises)
    /\ i \in 1..Len(promisesNext)
    /\ promises[i].state = "pending"
    /\ promisesNext[i].state = "rejected"

\* the orchestrator call has failed with the error of the first invocation of
\* its batch to fail: a failure while the call is pending gives the call its
\* error, a later one leaves it
FirstFailurePropagates ==
    /\ \A i \in 1..Len(fetchPromises) :
          FailsNow(fetchPromises, fetchPromises', i) =>
              /\ icStatus' = "rejected"
              /\ icReturn' = IF icStatus = "pending" THEN fetchPromises'[i].value ELSE icReturn
              /\ Len(fetchCalls') = Len(fetchPromises')
    /\ \A i \in 1..Len(dlPromises) :
          FailsNow(dlPromises, dlPromises', i) =>
              /\ dbStatus' = "rejected"
              /\ dbReturn' = IF dbStatus = "pending" THEN dlPromises'[i].value ELSE dbReturn
              /\ Len(downloadCalls') = Len(dlPromises')

\* C23, as stated: launch all, await all, propagate first failure: when more
\* than one collaborator invocation of a batch fails, the orchestrator call
\* fails with the error of the first failure, and it does so after all
\* invocations of the batch have been launched and awaited.
C23_FirstFailureAfterAllAwaited ==
    [][/\ FirstFailurePropagates
       /\ (icStatus = "pending" /\ icStatus' = "rejected") => ~AnyPending(fetchPromises')
       /\ (dbStatus = "pending" /\ dbStatus' = "rejected") => ~AnyPending(dlPromises')]_vars

\* C23, amended: when more than one collaborator invocation of a batch fails,
\* the orchestrator call fails with the error of the first failure to occur,
\* and it does so at that failure: after all invocations of the batch have
\* been launched, whether or not the others have completed.
C23_FirstFailureAfterAllLaunched ==
    [][FirstFailurePropagates]_vars

\* the second download failed first and the first download failed after it,
\* with the third still pending
C23_Witness ==
    /\ dbStatus = "rejected"
    /\ Len(dlPromises) = 3
    /\ dlPromises[1].state = "rejected"
    /\ dlPromises[2].state = "rejected"
    /\ dlPromises[3].state = "pending"
    /\ dbReturn = DownloadError(2)


\* the journals of L whose id is not id, in the order of L
OtherEntries(L, id) == SelectSeq(L, LAMBDA j : j.id # id)

\* C24: register(J) leaves every registry entry whose id differs from J.id
\* unchanged, and remove(id) leaves every entry whose id differs from id
\* unchanged, both in value and in relative order within list(); remove of an
\* id that is not registered leaves the whole registry unchanged.
C24_OtherEntriesUnchanged ==
    [][/\ \A J \in Journals : IsRegisterOf(J) =>
              OtherEntries(list(journals'), J.id) = OtherEntries(list(journals), J.id)
       /\ \A id \in JournalIds : IsRemoveOf(id) =>
              /\ OtherEntries(list(journals'), id) = OtherEntries(list(journals), id)
              /\ (get(journals, id) = undefined => journals' = journals)]_vars

\* science, registered between cell and nature, has been removed
C24_Witness ==
    /\ lastCall # NoCall
    /\ lastCall.op = "remove"
    /\ lastCall.arg = "science"
    /\ lastReturn = TRUE
    /\ Len(journals) = 2
    /\ journals[1].id = "cell"
    /\ journals[2].id = "nature"


\* C25: when identifyCandidates succeeds, the i-th record of its result has
\* the journalId of the i-th journal of registry.list() as it was at the time
\* of the call, whatever the order in which the fetches completed and
\* whatever was registered or removed in between.
C25_RecordsInListOrder ==
    /\ [][(IsIdentifyCall /\ hasAny(journals)) =>
            /\ Len(fetchPromises') = Len(list(journals))
            /\ icJournals' = list(journals)]_vars
    /\ [][~IsIdentifyCall => icJournals' = icJournals]_vars
    /\ [](icStatus = "fulfilled" =>
            /\ Len(icReturn) = Len(icJournals)
            /\ \A i \in 1..Len(icReturn) : icReturn[i].journalId = icJournals[i].id)

\* a call for science and nature, listed in that order, has succeeded with the
\* record of science first, and the registry has since been emptied
C25_Witness ==
    /\ icStatus = "fulfilled"
    /\ Len(icReturn) = 2
    /\ icReturn[1].journalId = "science"
    /\ icReturn[2].journalId = "nature"
    /\ icReturn[1].candidates = << >>
    /\ icReturn[2].candidates # << >>
    /\ journals = << >>


\* C26: in every registry state reached by construction and any sequence of
\* register and remove calls, the ids of the journals in list() are pairwise
\* distinct, get(id) returns a journal if and only if a journal with that id
\* is in list(), and then that journal, and hasAny() is true if and only if
\* list() is not empty.
C26_RegistryInvariants ==
    LET L == list(journals)
    IN  /\ \A i, k \in 1..Len(L) : L[i].id = L[k].id => i = k
        /\ \A id \in JournalIds :
              (get(journals, id) # undefined) <=> (\E i \in 1..Len(L) : L[i].id = id)
        /\ \A i \in 1..Len(L) : get(journals, L[i].id) = L[i]
        /\ hasAny(journals) <=> (L # << >>)
        /\ (lastCall # NoCall /\ lastCall.op = "get") =>
              \/ lastReturn = undefined /\ \A i \in 1..Len(L) : L[i].id # lastCall.arg
              \/ \E i \in 1..Len(L) : L[i].id = lastCall.arg /\ lastReturn = L[i]
        /\ (lastCall # NoCall /\ lastCall.op = "hasAny") => (lastReturn <=> (L # << >>))

\* get has returned the second of three registered journals, which was
\* re-registered with another value
C26_Witness ==
    /\ lastCall # NoCall
    /\ lastCall.op = "get"
    /\ Len(journals) = 3
    /\ lastCall.arg = journals[2].id
    /\ lastReturn = journals[2]
    /\ lastReturn = Journal(lastCall.arg, 2)

=============================================================================
